---- MODULE Spec2Model ----
(***************************************************************************)
(* newtype-macros: newtypes over unsigned integers, non-zero unsigned      *)
(* integers and strings, bound to a byte-oriented key-value storage by     *)
(* the macros of src/src/lib.rs.                                           *)
(*                                                                         *)
(* A text (a Rust String or &str) is a sequence of one-character strings,  *)
(* a byte string (Vec<u8>, &[u8]) is a sequence of numbers in 0..255.      *)
(***************************************************************************)
EXTENDS Integers, Sequences, FiniteSets, TLC

VARIABLES
    crate,      \* the set of struct declarations of the crate being built
    phase,      \* "source" | "running" | "rejected" (rustc refused the crate)
    storage,    \* the storage behind ReadonlyStorage / MutableStorage
    held,       \* the newtype value the caller holds (last constructed or loaded)
    last,       \* the last call made and what it returned
    shadow,     \* per binding slot, the value of the last save not yet cleared
    writers,    \* the types that have called set or clear on the storage
    halted      \* a panic has unwound the caller

vars == <<crate, phase, storage, held, last, shadow, writers, halted>>

Range(s) == {s[i] : i \in 1..Len(s)}

\* Option, the unit return and a panic (with its message)
None == [tag |-> "None"]
Some(v) == [tag |-> "Some", val |-> v]
Unit == [tag |-> "Unit"]
Ret(v) == [tag |-> "Ret", val |-> v]      \* a plain (non-Option) return value
Panic(m) == [tag |-> "Panic", msg |-> m]

(***************************************************************************)
(* Characters and their Unicode scalar values                              *)
(***************************************************************************)
LowerSeq == <<"a","b","c","d","e","f","g","h","i","j","k","l","m",
              "n","o","p","q","r","s","t","u","v","w","x","y","z">>
UpperSeq == <<"A","B","C","D","E","F","G","H","I","J","K","L","M",
              "N","O","P","Q","R","S","T","U","V","W","X","Y","Z">>
DigitSeq == <<"0","1","2","3","4","5","6","7","8","9">>

LowerSet == Range(LowerSeq)
UpperSet == Range(UpperSeq)
DigitSet == Range(DigitSeq)

IndexIn(c, s) == CHOOSE i \in 1..Len(s) : s[i] = c

Alphabet == LowerSet \cup UpperSet \cup DigitSet \cup {"_", ":", "é", "€"}

\* the Unicode scalar value of each character
CodePoints ==
    [c \in Alphabet |->
        IF c \in LowerSet THEN 96 + IndexIn(c, LowerSeq)
        ELSE IF c \in UpperSet THEN 64 + IndexIn(c, UpperSeq)
        ELSE IF c \in DigitSet THEN 47 + IndexIn(c, DigitSeq)
        ELSE IF c = "_" THEN 95
        ELSE IF c = ":" THEN 58
        ELSE IF c = "é" THEN 233
        ELSE 8364]   \* "€"

\* char as u32
CodePoint(c) == CodePoints[c]

Chars == [cp \in {CodePoints[c] : c \in Alphabet} |->
             CHOOSE c \in Alphabet : CodePoints[c] = cp]

\* char::from_u32
CharOf(cp) == Chars[cp]

is_uppercase(ch) == ch \in UpperSet

Lowercase == [c \in Alphabet |->
                 IF c \in UpperSet THEN LowerSeq[IndexIn(c, UpperSeq)] ELSE c]

to_lowercase(s) == [i \in 1..Len(s) |-> Lowercase[s[i]]]

(***************************************************************************)
(* paste's :snake modifier, as used for KEY and KEY_PREFIX                 *)
(***************************************************************************)
RECURSIVE snake_acc(_, _, _)
snake_acc(s, i, prev) ==
    IF i > Len(s) THEN <<>>
    ELSE (IF is_uppercase(s[i]) /\ prev # "_" THEN <<"_">> ELSE <<>>)
         \o <<s[i]>> \o snake_acc(s, i + 1, s[i])

snake(s) == to_lowercase(snake_acc(s, 1, "_"))

(***************************************************************************)
(* Integer to decimal text (ToString for the unsigned integers)            *)
(***************************************************************************)
RECURSIVE to_string(_)
to_string(n) ==
    IF n < 10 THEN <<DigitSeq[n + 1]>>
    ELSE to_string(n \div 10) \o <<DigitSeq[(n % 10) + 1]>>

(***************************************************************************)
(* UTF-8: str::as_bytes and String::from_utf8                              *)
(***************************************************************************)
utf8_char(cp) ==
    IF cp < 128 THEN <<cp>>
    ELSE IF cp < 2048 THEN <<192 + (cp \div 64), 128 + (cp % 64)>>
    ELSE <<224 + (cp \div 4096), 128 + ((cp \div 64) % 64), 128 + (cp % 64)>>

RECURSIVE as_bytes(_)
as_bytes(s) ==
    IF s = <<>> THEN <<>> ELSE utf8_char(CodePoint(Head(s))) \o as_bytes(Tail(s))

IsCont(b) == b >= 128 /\ b <= 191

\* Ok(text) or Err: [ok |-> BOOLEAN, text |-> ...]
RECURSIVE from_utf8_at(_, _)
from_utf8_at(bytes, i) ==
    IF i > Len(bytes) THEN [ok |-> TRUE, text |-> <<>>]
    ELSE LET b == bytes[i] IN
      IF b < 128 THEN
        LET r == from_utf8_at(bytes, i + 1) IN
        IF r.ok THEN [ok |-> TRUE, text |-> <<CharOf(b)>> \o r.text] ELSE r
      ELSE IF b >= 194 /\ b <= 223 /\ i + 1 <= Len(bytes) /\ IsCont(bytes[i + 1]) THEN
        LET r == from_utf8_at(bytes, i + 2) IN
        IF r.ok
        THEN [ok |-> TRUE,
              text |-> <<CharOf((b - 192) * 64 + (bytes[i + 1] - 128))>> \o r.text]
        ELSE r
      ELSE IF b >= 224 /\ b <= 239 /\ i + 2 <= Len(bytes)
              /\ IsCont(bytes[i + 1]) /\ IsCont(bytes[i + 2])
              /\ (b = 224 => bytes[i + 1] >= 160)
              /\ (b = 237 => bytes[i + 1] <= 159) THEN
        LET r == from_utf8_at(bytes, i + 3) IN
        IF r.ok
        THEN [ok |-> TRUE,
              text |-> <<CharOf((b - 224) * 4096 + (bytes[i + 1] - 128) * 64
                                + (bytes[i + 2] - 128))>> \o r.text]
        ELSE r
      ELSE [ok |-> FALSE, text |-> <<>>]

from_utf8(bytes) == from_utf8_at(bytes, 1)

(***************************************************************************)
(* Big-endian integers: to_be_bytes, from_be_bytes, [u8; N]::try_from      *)
(***************************************************************************)
RECURSIVE Pow256(_)
Pow256(n) == IF n = 0 THEN 1 ELSE 256 * Pow256(n - 1)

\* the largest value of an unsigned integer of n bytes
MaxOf(n) == Pow256(n) - 1

to_be_bytes(v, n) == [i \in 1..n |-> (v \div Pow256(n - i)) % 256]

RECURSIVE from_be_bytes(_)
from_be_bytes(bytes) ==
    IF bytes = <<>> THEN 0
    ELSE from_be_bytes(SubSeq(bytes, 1, Len(bytes) - 1)) * 256 + bytes[Len(bytes)]

\* TryFrom<Vec<u8>> for [u8; n]
try_from(bytes, n) == Len(bytes) = n

\* core::num::NonZero::new : None for zero
NonZeroInner_new(x) == IF x = 0 THEN None ELSE Some(x)

(***************************************************************************)
(* Struct declarations: #[derive(...Impl!)] #[custom(...)] struct Item(Inner) *)
(***************************************************************************)
\* Key Values of map bindings, by the IntoMapKey impl that encodes them
KUint(n)     == [k |-> "uint", v |-> n]          \* u8 .. usize
KNonZero(n)  == [k |-> "non_zero", v |-> n]      \* NonZeroU8 .. NonZeroUsize
KStr(s)      == [k |-> "String", v |-> s]
KNewtype(kv) == [k |-> "newtype", inner |-> kv]  \* a struct deriving MapKeyImpl!
KTuple(a, b) == [k |-> "tuple", a |-> a, b |-> b]

ModuleIt == <<"i","t">>     \* module_path!() of tests/it.rs

\* tests/it.rs, with u64 and NonZeroU128 narrowed to u16 and NonZeroU8
FooUint ==
    [ns |-> ModuleIt, item |-> <<"F","o","o","U","i","n","t">>, inner |-> <<"u","1","6">>,
     derive |-> {"UintNewtypeImpl", "ItemStoreImpl"},
     attrs |-> <<"item_store(always)", "uint_newtype(new)">>, keys |-> <<>>]
FooNonZero ==
    [ns |-> ModuleIt, item |-> <<"F","o","o","N","o","n","Z","e","r","o">>,
     inner |-> <<"N","o","n","Z","e","r","o","U","8">>,
     derive |-> {"NonZeroNewtypeImpl", "ItemStoreImpl"},
     attrs |-> <<"item_store(clear)", "non_zero_newtype(checked_new)",
                 "non_zero_newtype(from_non_zero)">>, keys |-> <<>>]
Baz ==
    [ns |-> ModuleIt, item |-> <<"B","a","z">>, inner |-> <<"u","1","6">>,
     derive |-> {"UintNewtypeImpl", "MapKeyImpl"},
     attrs |-> <<"uint_newtype(new)">>, keys |-> <<>>]
BarString ==
    [ns |-> ModuleIt, item |-> <<"B","a","r","S","t","r","i","n","g">>,
     inner |-> <<"S","t","r","i","n","g">>,
     derive |-> {"StringNewtypeImpl", "MapStoreImpl"},
     attrs |-> <<"map_store(key)", "map_store(clear)">>,
     keys |-> <<KTuple(KUint(0), KNewtype(KUint(1))),
                KTuple(KUint(1), KNewtype(KUint(1))),
                KTuple(KUint(1), KNewtype(KUint(11))),
                KTuple(KUint(11), KNewtype(KUint(1)))>>]
FooString ==
    [ns |-> ModuleIt, item |-> <<"F","o","o","S","t","r","i","n","g">>,
     inner |-> <<"S","t","r","i","n","g">>,
     derive |-> {"StringNewtypeImpl", "MapStoreImpl"},
     attrs |-> <<"map_store(key)", "map_store(always)">>,
     keys |-> <<KStr(<<"a","d","d","r","e","s","s">>)>>]
\* further declarations the macros accept
Foo ==
    [ns |-> ModuleIt, item |-> <<"F","o","o">>,
     inner |-> <<"N","o","n","Z","e","r","o","U","8">>,
     derive |-> {"NonZeroNewtypeImpl", "ItemStoreImpl"},
     attrs |-> <<"item_store(clear)", "non_zero_newtype(checked_new)">>, keys |-> <<>>]
FooNonZeroU8 ==
    [ns |-> ModuleIt, item |-> <<"F","o","o","N","o","n","Z","e","r","o">>,
     inner |-> <<"u","8">>,
     derive |-> {"UintNewtypeImpl", "ItemStoreImpl"},
     attrs |-> <<"item_store(always)", "uint_newtype(new)">>, keys |-> <<>>]
Pair ==
    [ns |-> ModuleIt, item |-> <<"P","a","i","r">>, inner |-> <<"u","8">>,
     derive |-> {"UintNewtypeImpl", "MapStoreImpl"},
     attrs |-> <<"uint_newtype(new)", "map_store(key)", "map_store(clear)">>,
     keys |-> <<KTuple(KStr(<<"a">>), KStr(<<"b">>)),
                KTuple(KStr(<<"a",":","b">>), KStr(<<"c">>)),
                KTuple(KStr(<<"a">>), KStr(<<"b",":","c">>))>>]
Route ==
    [ns |-> ModuleIt, item |-> <<"R","o","u","t","e">>, inner |-> <<"u","8">>,
     derive |-> {"UintNewtypeImpl", "MapStoreImpl"},
     attrs |-> <<"uint_newtype(new)", "map_store(key)", "map_store(clear)">>,
     keys |-> <<KTuple(KStr(<<"a",":","a">>), KStr(<<"a">>)),
                KTuple(KStr(<<"a">>), KStr(<<"a",":","a">>))>>]
\* declarations naming both the clearable and the always-present option
BothItem ==
    [ns |-> ModuleIt, item |-> <<"B","o","t","h">>, inner |-> <<"u","8">>,
     derive |-> {"UintNewtypeImpl", "ItemStoreImpl"},
     attrs |-> <<"item_store(clear)", "item_store(always)", "uint_newtype(new)">>,
     keys |-> <<>>]
BothMap ==
    [ns |-> ModuleIt, item |-> <<"B","o","t","h","A","t">>, inner |-> <<"u","8">>,
     derive |-> {"UintNewtypeImpl", "MapStoreImpl"},
     attrs |-> <<"uint_newtype(new)", "map_store(key)", "map_store(always)",
                 "map_store(clear)">>,
     keys |-> <<KUint(0)>>]

\* a struct is named by an identifier; Decl gives its declaration
Decl(d) ==
    CASE d = "FooUint" -> FooUint
      [] d = "FooNonZero" -> FooNonZero
      [] d = "Baz" -> Baz
      [] d = "BarString" -> BarString
      [] d = "FooString" -> FooString
      [] d = "Foo" -> Foo
      [] d = "FooNonZeroU8" -> FooNonZeroU8
      [] d = "Pair" -> Pair
      [] d = "Route" -> Route
      [] d = "BothItem" -> BothItem
      [] d = "BothMap" -> BothMap

\* the crates built: each is the set of structs of one compilation
Crates == { {"FooUint", "FooNonZero"},
            {"Baz", "BarString"},
            {"FooString"},
            {"Foo", "FooNonZeroU8"},
            {"Pair"},
            {"Route"},
            {"FooUint", "BothItem"},
            {"Baz", "BothMap"} }

(***************************************************************************)
(* Macro expansion: the trait impls each derive macro emits for a struct   *)
(***************************************************************************)
RECURSIVE Flatten(_)
Flatten(ss) == IF ss = <<>> THEN <<>> ELSE Head(ss) \o Flatten(Tail(ss))

\* mutant: the always arm without its marker impl
item_store_derive_attrs_no_marker(attr) ==
    IF attr = "item_store(always)" THEN <<"item::LoadAlways">>
    ELSE IF attr = "item_store(clear)" THEN <<"item::ClearOrLoadAlways", "item::Clear">>
    ELSE <<>>

item_store_derive_attrs(attr) ==
    IF attr = "item_store(always)" THEN <<"item::ClearOrLoadAlways", "item::LoadAlways">>
    ELSE IF attr = "item_store(clear)" THEN <<"item::ClearOrLoadAlways", "item::Clear">>
    ELSE <<>>

ItemStoreImpl(attrs) ==
    <<"item::Store">> \o Flatten([i \in 1..Len(attrs) |-> item_store_derive_attrs(attrs[i])])

store_map_derive_attrs(attr) ==
    IF attr = "map_store(key)" THEN <<"map::MapKeyType", "map::Store">>
    ELSE IF attr = "map_store(always)"
         THEN <<"map::ClearAtOrLoadAlwaysAt", "map::LoadAlwaysAt">>
    ELSE IF attr = "map_store(clear)" THEN <<"map::ClearAtOrLoadAlwaysAt", "map::ClearAt">>
    ELSE <<>>

MapStoreImpl(attrs) ==
    Flatten([i \in 1..Len(attrs) |-> store_map_derive_attrs(attrs[i])])

non_zero_newtype_derive_attrs(attr) ==
    IF attr = "non_zero_newtype(from_non_zero)" THEN <<"non_zero::FromNonZero">>
    ELSE IF attr = "non_zero_newtype(checked_new)" THEN <<"non_zero::CheckedNew">>
    ELSE <<>>

NonZeroNewtypeImpl(attrs) ==
    <<"non_zero::Newtype">>
    \o Flatten([i \in 1..Len(attrs) |-> non_zero_newtype_derive_attrs(attrs[i])])

uint_newtype_derive_attrs(attr) ==
    IF attr = "uint_newtype(new)" THEN <<"uint::New">> ELSE <<>>

UintNewtypeImpl(attrs) ==
    <<"uint::Newtype">>
    \o Flatten([i \in 1..Len(attrs) |-> uint_newtype_derive_attrs(attrs[i])])

StringNewtypeImpl(attrs) == <<"string::Newtype">>

MapKeyImpl(attrs) == <<"map::IntoMapKey">>

\* every impl block the derives of struct d expand to, one entry per block
Impls(d) ==
    LET a == Decl(d).attrs
        m == Decl(d).derive
    IN (IF "UintNewtypeImpl" \in m THEN UintNewtypeImpl(a) ELSE <<>>)
       \o (IF "NonZeroNewtypeImpl" \in m THEN NonZeroNewtypeImpl(a) ELSE <<>>)
       \o (IF "StringNewtypeImpl" \in m THEN StringNewtypeImpl(a) ELSE <<>>)
       \o (IF "MapKeyImpl" \in m THEN MapKeyImpl(a) ELSE <<>>)
       \o (IF "ItemStoreImpl" \in m THEN ItemStoreImpl(a) ELSE <<>>)
       \o (IF "MapStoreImpl" \in m THEN MapStoreImpl(a) ELSE <<>>)

Structs == UNION Crates

\* the traits each struct implements
Traits == [d \in Structs |-> Range(Impls(d))]

Has(d, trait) == trait \in Traits[d]

\* trait coherence (rustc E0119): a trait is implemented at most once for a type
Coherent(d) ==
    \A i, j \in 1..Len(Impls(d)) : Impls(d)[i] = Impls(d)[j] => i = j

\* supertrait bounds: ClearAt: MapKeyType, LoadAlwaysAt: Sized + MapKeyType
Supertraits(d) ==
    (Has(d, "map::ClearAt") \/ Has(d, "map::LoadAlwaysAt")) => Has(d, "map::MapKeyType")

Accepted(c) == \A d \in c : Coherent(d) /\ Supertraits(d)

(***************************************************************************)
(* Byte codec of each newtype kind                                         *)
(***************************************************************************)
\* size_of the primitive behind Inner, in bytes
Width(d) ==
    LET inner == Decl(d).inner
    IN CASE inner = <<"u","8">> -> 1
         [] inner = <<"u","1","6">> -> 2
         [] inner = <<"N","o","n","Z","e","r","o","U","8">> -> 1
         [] inner = <<"N","o","n","Z","e","r","o","U","1","6">> -> 2

\* a newtype value: the struct and the value it wraps
Newtype(d, x) == [ty |-> d, inner |-> x]

Uint_from_owned_bytes(d, bytes) ==
    IF ~try_from(bytes, Width(d)) THEN Panic("always stored correct amount of bytes")
    ELSE Ret(Newtype(d, from_be_bytes(bytes)))

\* mutant: to_le_bytes
Uint_to_owned_bytes_le(v) ==
    [i \in 1..Width(v.ty) |-> (v.inner \div Pow256(i - 1)) % 256]

Uint_to_owned_bytes(v) == to_be_bytes(v.inner, Width(v.ty))

NonZero_from_owned_bytes(d, bytes) ==
    IF ~try_from(bytes, Width(d)) THEN Panic("always stored correct amount of bytes")
    ELSE LET non_zero == NonZeroInner_new(from_be_bytes(bytes))
         IN IF non_zero.tag = "None" THEN Panic("saved primative > 0")
            ELSE Ret(Newtype(d, non_zero.val))

NonZero_to_owned_bytes(v) == to_be_bytes(v.inner, Width(v.ty))

String_from_owned_bytes(d, bytes) ==
    LET r == from_utf8(bytes)
    IN IF r.ok THEN Ret(Newtype(d, r.text)) ELSE Panic("stored valid utf-8")

String_to_owned_bytes(v) == as_bytes(v.inner)

\* Self::from_owned_bytes: Ret(value) when it returns, Panic when it unwinds
from_owned_bytes(d, bytes) ==
    IF "UintNewtypeImpl" \in Decl(d).derive THEN Uint_from_owned_bytes(d, bytes)
    ELSE IF "NonZeroNewtypeImpl" \in Decl(d).derive THEN NonZero_from_owned_bytes(d, bytes)
    ELSE String_from_owned_bytes(d, bytes)

to_owned_bytes(v) ==
    IF "UintNewtypeImpl" \in Decl(v.ty).derive THEN Uint_to_owned_bytes(v)
    ELSE IF "NonZeroNewtypeImpl" \in Decl(v.ty).derive THEN NonZero_to_owned_bytes(v)
    ELSE String_to_owned_bytes(v)

(***************************************************************************)
(* Constructors and accessors                                              *)
(***************************************************************************)
uint_new(d, t) == Newtype(d, t)

string_new(d, s) == Newtype(d, s)

from_non_zero(d, non_zero) == Newtype(d, non_zero)

\* mutant: no zero check
checked_new_unchecked(d, t) == Some(Newtype(d, t))

checked_new(d, t) ==
    LET r == NonZeroInner_new(t)
    IN IF r.tag = "None" THEN None ELSE Some(Newtype(d, r.val))

newtype_get(v) == v.inner

(***************************************************************************)
(* Key derivation                                                          *)
(***************************************************************************)
Sep == <<":", ":">>

\* concat!(module_path!(), "::", stringify!([< $Item:snake _ $Inner:snake >]))
KEY(d) == Decl(d).ns \o Sep \o snake(Decl(d).item) \o <<"_">> \o snake(Decl(d).inner)

KEY_PREFIX(d) ==
    Decl(d).ns \o Sep \o snake(Decl(d).item) \o <<"_">> \o snake(Decl(d).inner)

RECURSIVE into_map_key(_)
into_map_key(kv) ==
    CASE kv.k = "uint" -> to_string(kv.v)
      [] kv.k = "non_zero" -> to_string(kv.v)
      [] kv.k = "String" -> kv.v
      [] kv.k = "newtype" -> into_map_key(kv.inner)
      [] kv.k = "tuple" -> into_map_key(kv.a) \o <<":">> \o into_map_key(kv.b)

map_key(d, key) == KEY_PREFIX(d) \o Sep \o into_map_key(key)

KeyIndices(d) == 1..Len(Decl(d).keys)

\* the i-th Key Value the caller passes to a map binding of struct d
KeyAt(d, i) == Decl(d).keys[i]

\* Self::KEY.as_bytes() and Self::map_key(key).as_bytes(), evaluated once
KEY_as_bytes == [d \in Structs |-> as_bytes(KEY(d))]

map_key_as_bytes ==
    [d \in Structs |-> [i \in KeyIndices(d) |-> as_bytes(map_key(d, KeyAt(d, i)))]]

(***************************************************************************)
(* The storage: a byte store honouring get / set / clear                   *)
(***************************************************************************)
EmptyStorage == [key \in {} |-> <<>>]

storage_get(st, key) == IF key \in DOMAIN st THEN Some(st[key]) ELSE None

storage_set(st, key, value) ==
    [k \in DOMAIN st \cup {key} |-> IF k = key THEN value ELSE st[k]]

storage_clear(st, key) == [k \in DOMAIN st \ {key} |-> st[k]]

(***************************************************************************)
(* item::Store, item::Clear, item::LoadAlways                              *)
(***************************************************************************)
\* Option<Vec<u8>>::map(Self::from_owned_bytes)
MapDecode(d, got) ==
    IF got.tag = "None" THEN None
    ELSE LET r == from_owned_bytes(d, got.val)
         IN IF r.tag = "Panic" THEN r ELSE Some(r.val)

item_load(d, st) == MapDecode(d, storage_get(st, KEY_as_bytes[d]))

\* mutant: a save that keeps the bytes already stored
item_save_if_absent(v, st) ==
    IF KEY_as_bytes[v.ty] \in DOMAIN st THEN st
    ELSE storage_set(st, KEY_as_bytes[v.ty], to_owned_bytes(v))

item_save(v, st) == storage_set(st, KEY_as_bytes[v.ty], to_owned_bytes(v))

\* mutant: a clear that empties the store
item_clear_all(d, st) == EmptyStorage

item_clear(d, st) == storage_clear(st, KEY_as_bytes[d])

\* Option::expect
Expect(r, msg) ==
    IF r.tag = "None" THEN Panic(msg)
    ELSE IF r.tag = "Some" THEN Ret(r.val)
    ELSE r

\* mutant: unwrap_or(Self(0)) instead of expect
item_load_always_or_zero(d, st) ==
    LET r == item_load(d, st)
    IN IF r.tag = "None" THEN Ret(Newtype(d, 0))
       ELSE IF r.tag = "Some" THEN Ret(r.val)
       ELSE r

item_load_always(d, st) == Expect(item_load(d, st), "always present in storage")

(***************************************************************************)
(* map::Store, map::ClearAt, map::LoadAlwaysAt                             *)
(***************************************************************************)
\* key: the index of the Key Value passed, KeyAt(d, key)
load_at(d, st, key) == MapDecode(d, storage_get(st, map_key_as_bytes[d][key]))

save_at(v, st, key) == storage_set(st, map_key_as_bytes[v.ty][key], to_owned_bytes(v))

clear_at(d, st, key) == storage_clear(st, map_key_as_bytes[d][key])

load_always_at(d, st, key) == Expect(load_at(d, st, key), "always present in storage")

(***************************************************************************)
(* The program: a crate is compiled, then its caller constructs values and *)
(* calls the bindings on one storage                                       *)
(***************************************************************************)
Hello == <<"h","e","l","l","o">>

StringInputs == {<<>>, Hello, <<"é", "€", ":">>}

\* the integers passed to constructors: the smallest ones, the first to need a
\* second byte, the largest
MaxSmall == 1

UintInputs(d) ==
    (0..MaxSmall) \cup {MaxOf(Width(d))} \cup (IF Width(d) > 1 THEN {256} ELSE {})

NonZeroInputs(d) == UintInputs(d) \ {0}

\* the slots of a crate: <<struct, 0>> for a singleton, <<struct, i>> for the
\* i-th Key Value of a map
Slots(c) ==
    {<<d, 0>> : d \in {x \in c : Has(x, "item::Store")}}
    \cup UNION {{<<d, i>> : i \in KeyIndices(d)} : d \in {x \in c : Has(x, "map::Store")}}

NoValue == [ty |-> "", inner |-> 0]

Call(op, d, kv, key, arg, ret) ==
    [op |-> op, ty |-> d, kv |-> kv, key |-> key, arg |-> arg, ret |-> ret]

Init ==
    /\ crate \in Crates
    /\ phase = "source"
    /\ storage = EmptyStorage
    /\ held = NoValue
    /\ last = Call("", "", 0, <<>>, 0, Unit)
    /\ shadow = [s \in Slots(crate) |-> None]
    /\ writers = {}
    /\ halted = FALSE

Running == phase = "running" /\ ~halted

\* the structs of the crate that have the methods of a trait
Implementors(trait) == {d \in crate : Has(d, trait)}

\* rustc: macro expansion, then the coherence check of every struct's impls
Compile ==
    /\ phase = "source"
    /\ phase' = IF Accepted(crate) THEN "running" ELSE "rejected"
    /\ UNCHANGED <<crate, storage, held, last, shadow, writers, halted>>

New ==
    \E d \in Implementors("uint::New") : \E t \in UintInputs(d) :
        /\ Running
        /\ held' = uint_new(d, t)
        /\ last' = Call("new", d, 0, <<>>, t, Ret(held'))
        /\ UNCHANGED <<crate, phase, storage, shadow, writers, halted>>

StringNew ==
    \E d \in Implementors("string::Newtype") : \E s \in StringInputs :
        /\ Running
        /\ held' = string_new(d, s)
        /\ last' = Call("string_new", d, 0, <<>>, 0, Ret(held'))
        /\ UNCHANGED <<crate, phase, storage, shadow, writers, halted>>

CheckedNew ==
    \E d \in Implementors("non_zero::CheckedNew") : \E t \in UintInputs(d) :
        /\ Running
        /\ LET r == checked_new(d, t)
           IN /\ held' = IF r.tag = "Some" THEN r.val ELSE held
              /\ last' = Call("checked_new", d, 0, <<>>, t, r)
        /\ UNCHANGED <<crate, phase, storage, shadow, writers, halted>>

FromNonZero ==
    \E d \in Implementors("non_zero::FromNonZero") : \E n \in NonZeroInputs(d) :
        /\ Running
        /\ held' = from_non_zero(d, n)
        /\ last' = Call("from_non_zero", d, 0, <<>>, n, Ret(held'))
        /\ UNCHANGED <<crate, phase, storage, shadow, writers, halted>>

Load ==
    \E d \in Implementors("item::Store") :
        /\ Running
        /\ LET r == item_load(d, storage)
           IN /\ held' = IF r.tag = "Some" THEN r.val ELSE held
              /\ halted' = (r.tag = "Panic")
              /\ last' = Call("load", d, 0, KEY_as_bytes[d], 0, r)
        /\ UNCHANGED <<crate, phase, storage, shadow, writers>>

Save ==
    \E d \in Implementors("item::Store") :
        /\ Running
        /\ held.ty = d
        /\ storage' = item_save(held, storage)
        /\ shadow' = [shadow EXCEPT ![<<d, 0>>] = Some(held.inner)]
        /\ writers' = writers \cup {d}
        /\ last' = Call("save", d, 0, KEY_as_bytes[d], 0, Unit)
        /\ UNCHANGED <<crate, phase, held, halted>>

Clear ==
    \E d \in Implementors("item::Clear") :
        /\ Running
        /\ storage' = item_clear(d, storage)
        /\ shadow' = [shadow EXCEPT ![<<d, 0>>] = None]
        /\ writers' = writers \cup {d}
        /\ last' = Call("clear", d, 0, KEY_as_bytes[d], 0, Unit)
        /\ UNCHANGED <<crate, phase, held, halted>>

LoadAlways ==
    \E d \in Implementors("item::LoadAlways") :
        /\ Running
        /\ LET r == item_load_always(d, storage)
           IN /\ held' = IF r.tag = "Ret" THEN r.val ELSE held
              /\ halted' = (r.tag = "Panic")
              /\ last' = Call("load_always", d, 0, KEY_as_bytes[d], 0, r)
        /\ UNCHANGED <<crate, phase, storage, shadow, writers>>

LoadAt ==
    \E d \in Implementors("map::Store") : \E i \in KeyIndices(d) :
        /\ Running
        /\ LET r == load_at(d, storage, i)
           IN /\ held' = IF r.tag = "Some" THEN r.val ELSE held
              /\ halted' = (r.tag = "Panic")
              /\ last' = Call("load_at", d, i, map_key_as_bytes[d][i], 0, r)
        /\ UNCHANGED <<crate, phase, storage, shadow, writers>>

SaveAt ==
    \E d \in Implementors("map::Store") : \E i \in KeyIndices(d) :
        /\ Running
        /\ held.ty = d
        /\ storage' = save_at(held, storage, i)
        /\ shadow' = [shadow EXCEPT ![<<d, i>>] = Some(held.inner)]
        /\ writers' = writers \cup {d}
        /\ last' = Call("save_at", d, i, map_key_as_bytes[d][i], 0, Unit)
        /\ UNCHANGED <<crate, phase, held, halted>>

ClearAt ==
    \E d \in Implementors("map::ClearAt") : \E i \in KeyIndices(d) :
        /\ Running
        /\ storage' = clear_at(d, storage, i)
        /\ shadow' = [shadow EXCEPT ![<<d, i>>] = None]
        /\ writers' = writers \cup {d}
        /\ last' = Call("clear_at", d, i, map_key_as_bytes[d][i], 0, Unit)
        /\ UNCHANGED <<crate, phase, held, halted>>

LoadAlwaysAt ==
    \E d \in Implementors("map::LoadAlwaysAt") : \E i \in KeyIndices(d) :
        /\ Running
        /\ LET r == load_always_at(d, storage, i)
           IN /\ held' = IF r.tag = "Ret" THEN r.val ELSE held
              /\ halted' = (r.tag = "Panic")
              /\ last' = Call("load_always_at", d, i,
                              map_key_as_bytes[d][i], 0, r)
        /\ UNCHANGED <<crate, phase, storage, shadow, writers>>

Next ==
    \/ Compile
    \/ New
    \/ StringNew
    \/ CheckedNew
    \/ FromNonZero
    \/ Load
    \/ Save
    \/ Clear
    \/ LoadAlways
    \/ LoadAt
    \/ SaveAt
    \/ ClearAt
    \/ LoadAlwaysAt

Spec == Init /\ [][Next]_vars

(***************************************************************************)
(* The codec on its own: every value of a struct's kind, encoded and then  *)
(* decoded                                                                 *)
(***************************************************************************)
MaxStrLen == 2

CodecAlphabet == {"a", ":", "é", "€"}

Strings(n) == UNION {[1..k -> CodecAlphabet] : k \in 0..n}

\* every value a newtype of struct d can wrap
AllValues(d) ==
    IF Has(d, "uint::Newtype") THEN 0..MaxOf(Width(d))
    ELSE IF Has(d, "non_zero::Newtype") THEN 1..MaxOf(Width(d))
    ELSE Strings(MaxStrLen)

InitCodec ==
    /\ crate \in {c \in Crates : Accepted(c)}
    /\ phase = "running"
    /\ storage = EmptyStorage
    /\ \E d \in crate : \E x \in AllValues(d) : held = Newtype(d, x)
    /\ last = Call("", "", 0, <<>>, 0, Unit)
    /\ shadow = [s \in Slots(crate) |-> None]
    /\ writers = {}
    /\ halted = FALSE

ToOwnedBytes ==
    /\ last.op = ""
    /\ last' = Call("to_owned_bytes", held.ty, 0, <<>>, 0, Ret(to_owned_bytes(held)))
    /\ UNCHANGED <<crate, phase, storage, held, shadow, writers, halted>>

FromOwnedBytes ==
    /\ last.op = "to_owned_bytes"
    /\ last' = Call("from_owned_bytes", held.ty, 0, <<>>, last.ret.val,
                    from_owned_bytes(held.ty, last.ret.val))
    /\ UNCHANGED <<crate, phase, storage, held, shadow, writers, halted>>

NextCodec ==
    \/ ToOwnedBytes
    \/ FromOwnedBytes

SpecCodec == InitCodec /\ [][NextCodec]_vars

(***************************************************************************)
(* Properties                                                              *)
(***************************************************************************)
\* what a load of a slot returns when the slot behaves as a cell of its own
Expected(slot, r) ==
    IF shadow[slot].tag = "None" THEN r.tag = "None"
    ELSE r.tag = "Some" /\ r.val.ty = slot[1] /\ r.val.inner = shadow[slot].val

\* C1: when only one Singleton binding has written to the store, its load
\* returns absent if nothing was saved or the last write was a clear, and
\* otherwise exactly the value of the most recent save.
SingletonLoadsLastSave ==
    /\ \A d \in Implementors("item::Store") :
          writers \subseteq {d} => Expected(<<d, 0>>, item_load(d, storage))
    /\ (last.op = "load" /\ writers \subseteq {last.ty})
          => Expected(<<last.ty, 0>>, last.ret)

SingletonLoadedSavedValue ==
    /\ last.op = "load"
    /\ last.ret.tag = "Some"
    /\ last.ret.val.inner = MaxOf(Width(last.ty))
    /\ writers = {last.ty}

\* C2: when only one Map binding has written to the store, load_at(k) returns
\* the value of the most recent save_at(_, k) not followed by clear_at(k), and
\* absent otherwise, whatever was saved or cleared at other Key Values.
MapSlotsIndependent ==
    /\ \A d \in Implementors("map::Store") : \A i \in KeyIndices(d) :
          writers \subseteq {d} => Expected(<<d, i>>, load_at(d, storage, i))
    /\ (last.op = "load_at" /\ writers \subseteq {last.ty})
          => Expected(<<last.ty, last.kv>>, last.ret)

\* a struct carrying both the clearable and the always-present capability
CarriesBoth(d) ==
    \/ Has(d, "item::Clear") /\ Has(d, "item::LoadAlways")
    \/ Has(d, "map::ClearAt") /\ Has(d, "map::LoadAlwaysAt")

\* C3: no struct of a crate that compiled has both clear and load_always (or
\* both clear_at and load_always_at), and a crate declaring both on one struct
\* never runs: it makes no call and the store stays empty.
ExclusiveCapabilities ==
    /\ phase = "running" => \A d \in crate : ~CarriesBoth(d)
    /\ (\E d \in crate : CarriesBoth(d))
          => phase # "running" /\ last.op = "" /\ storage = EmptyStorage

BothDeclaredRejected ==
    /\ phase = "rejected"
    /\ \E d \in crate :
          /\ "item_store(clear)" \in Range(Decl(d).attrs)
          /\ "item_store(always)" \in Range(Decl(d).attrs)

\* the storage keys a struct's bindings can pass to the storage
StorageKeys(d) ==
    (IF Has(d, "item::Store") THEN {KEY_as_bytes[d]} ELSE {})
    \cup (IF Has(d, "map::Store")
          THEN {map_key_as_bytes[d][i] : i \in KeyIndices(d)} ELSE {})

\* C4: the key a binding passes to the storage is a key of no other struct of
\* the crate: distinct types never collide on storage keys.
DistinctTypesDistinctKeys ==
    last.key # <<>> => \A d \in crate \ {last.ty} : last.key \notin StorageKeys(d)

\* C5: the key a map binding passes to the storage for one Key Value is the
\* key of no other Key Value of the same struct: map key derivation is
\* injective in the Key Value.
MapKeyInjective ==
    last.kv # 0 =>
        \A j \in KeyIndices(last.ty) :
            KeyAt(last.ty, j) # KeyAt(last.ty, last.kv)
                => map_key_as_bytes[last.ty][j] # last.key

\* the big-endian bytes of an integer of 1 or 2 bytes, written out
BigEndian(v, n) == IF n = 1 THEN <<v>> ELSE <<v \div 256, v % 256>>

\* C6: the bytes to_owned_bytes gives for a value decode to that value, and
\* an integer value encodes big-endian in exactly width/8 bytes.
CodecRoundTrip ==
    /\ (last.op = "to_owned_bytes" /\ ~Has(held.ty, "string::Newtype"))
          => last.ret.val = BigEndian(held.inner, Width(held.ty))
    /\ last.op = "from_owned_bytes" => last.ret = Ret(held)

LargestDecoded ==
    /\ last.op = "from_owned_bytes"
    /\ last.ty = "FooUint"
    /\ held.inner = MaxOf(2)
    /\ last.arg = <<255, 255>>
    /\ last.ret.tag = "Ret"

DecodeFailures ==
    {"always stored correct amount of bytes", "saved primative > 0", "stored valid utf-8"}

\* C7: no load, load_at, load_always or load_always_at fails to decode the
\* bytes it reads: the store only holds what the bindings wrote.
LoadsAlwaysDecode ==
    last.op \in {"load", "load_at", "load_always", "load_always_at"}
        => ~(last.ret.tag = "Panic" /\ last.ret.msg \in DecodeFailures)

\* what load or load_at returns for the binding and key of the last call
LoadOfLast ==
    IF last.kv = 0 THEN item_load(last.ty, storage)
    ELSE load_at(last.ty, storage, last.kv)

AlwaysOps == {"load_always", "load_always_at"}

\* C8: load_always / load_always_at returns the value load / load_at returns
\* when bytes are present, halts with a panic when none are, reads the key
\* load reads, and leaves the store as it was.
LoadAlwaysDelegates ==
    /\ [](last.op \in AlwaysOps =>
            /\ last.key \in StorageKeys(last.ty)
            /\ LoadOfLast.tag = "Some" => last.ret = Ret(LoadOfLast.val)
            /\ LoadOfLast.tag = "None" =>
                  /\ last.ret = Panic("always present in storage")
                  /\ halted
            /\ LoadOfLast.tag = "Panic" => last.ret = LoadOfLast /\ halted)
    /\ [][last'.op \in AlwaysOps => storage' = storage /\ shadow' = shadow]_vars

LoadAlwaysOnAbsentHalts ==
    /\ last.op \in AlwaysOps
    /\ last.ret.tag = "Panic"
    /\ halted

ClearOps == {"clear", "clear_at"}

\* C9: a clear removes its key and nothing else; on an absent key, and so
\* when repeated, it leaves the store unchanged; after it the binding's load
\* returns absent.
ClearIdempotent ==
    /\ [](last.op \in ClearOps =>
            /\ last.key \notin DOMAIN storage
            /\ LoadOfLast = None)
    /\ [][last'.op \in ClearOps =>
            /\ DOMAIN storage' = DOMAIN storage \ {last'.key}
            /\ \A k \in DOMAIN storage' : storage'[k] = storage[k]
            /\ last'.key \notin DOMAIN storage => storage' = storage
            /\ (last.op \in ClearOps /\ last.key = last'.key) => storage' = storage]_vars

ClearedBesideOtherKeys ==
    /\ last.op = "clear_at"
    /\ storage # EmptyStorage

IsNonZero(d) == d \in Structs /\ Has(d, "non_zero::Newtype")

\* C10: checked_new(x) is absent exactly when x = 0 and otherwise wraps x;
\* from_non_zero(n) wraps n; no non-zero newtype held by the caller is 0, and
\* the bytes a non-zero newtype saves are not all zero.
NonZeroConstruction ==
    /\ last.op = "checked_new" =>
          /\ last.ret.tag = "None" <=> last.arg = 0
          /\ last.ret.tag = "Some" => newtype_get(last.ret.val) = last.arg
    /\ last.op = "from_non_zero" => newtype_get(last.ret.val) = last.arg
    /\ IsNonZero(held.ty) => newtype_get(held) # 0
    /\ (last.op = "save" /\ IsNonZero(last.ty)) =>
          \E i \in 1..Len(storage[last.key]) : storage[last.key][i] # 0

CheckedNewOfZeroAbsent ==
    /\ last.op = "checked_new"
    /\ last.arg = 0
    /\ last.ret = None

\* the keys the tests' structs are to use, written out
ExpectedKey(d, kv) ==
    CASE d = "FooUint" -> <<"i","t",":",":","f","o","o","_","u","i","n","t","_","u","1","6">>
      [] d = "FooNonZero" -> <<"i","t",":",":","f","o","o","_","n","o","n","_","z","e","r","o","_","n","o","n","_","z","e","r","o","_","u","8">>
      [] d = "BarString" /\ kv = 1 -> <<"i","t",":",":","b","a","r","_","s","t","r","i","n","g","_","s","t","r","i","n","g",":",":","0",":","1">>
      [] d = "BarString" /\ kv = 2 -> <<"i","t",":",":","b","a","r","_","s","t","r","i","n","g","_","s","t","r","i","n","g",":",":","1",":","1">>
      [] d = "BarString" /\ kv = 3 -> <<"i","t",":",":","b","a","r","_","s","t","r","i","n","g","_","s","t","r","i","n","g",":",":","1",":","1","1">>
      [] d = "BarString" /\ kv = 4 -> <<"i","t",":",":","b","a","r","_","s","t","r","i","n","g","_","s","t","r","i","n","g",":",":","1","1",":","1">>
      [] d = "FooString" -> <<"i","t",":",":","f","o","o","_","s","t","r","i","n","g","_","s","t","r","i","n","g",":",":","a","d","d","r","e","s","s">>

\* Key Values of one map that are each other's tuple with the components swapped
Swapped(k1, k2) ==
    /\ k1.k = "tuple" /\ k2.k = "tuple"
    /\ k1.a.k = k2.b.k /\ k1.b.k = k2.a.k
    /\ k1.a = k2.b /\ k1.b = k2.a

\* the part of C11 on the layout of the keys: every storage call of the tests'
\* structs passes the key written out in ExpectedKey, whatever value is wrapped
KeyLayoutOfTests ==
    (last.key # <<>> /\ last.ty \in {"FooUint", "FooNonZero", "BarString", "FooString"})
        => last.key = as_bytes(ExpectedKey(last.ty, last.kv))

\* C11: a singleton passes the one key "{namespace}::{type}_{primitive}" to the
\* storage, a map that prefix, "::" and the Key Value's components joined with
\* ":" in declared order, and a tuple (a, b) with a # b never gets the key of
\* the tuple (b, a).
KeyLayout ==
    /\ KeyLayoutOfTests
    /\ last.kv # 0 =>
          \A j \in KeyIndices(last.ty) :
              (Swapped(KeyAt(last.ty, last.kv), KeyAt(last.ty, j))
               /\ KeyAt(last.ty, last.kv).a # KeyAt(last.ty, last.kv).b)
                  => map_key_as_bytes[last.ty][j] # last.key

====
